---- MODULE Spec2Model ----
(***************************************************************************)
(* Model of the video_web job pipeline: the upload service enqueues job    *)
(* descriptors on the Redis list video_jobs (upload-service/server.js),    *)
(* and processing workers pop them and drive each job through              *)
(* processVideo (processing-worker/worker.js), writing snapshots to the    *)
(* Redis keys job_<id> and job_<id>_processing.                            *)
(*                                                                         *)
(* Every await of the source is one step of a worker or of a request       *)
(* handler (POST /upload, GET /jobs, POST /register, DELETE /videos/:id).  *)
(* A Redis command                                                         *)
(* either succeeds or throws (connection error); a transform (ffprobe /    *)
(* ffmpeg run) either resolves or rejects.  Runs are taken within the TTL  *)
(* of the job_<id>_processing key.  Timestamps are recorded by the line    *)
(* that assigned them; processingTime, derived from them, is left out.     *)
(*                                                                         *)
(* The Postgres tables users and videos (auth-service/server.js            *)
(* initDatabase) are shared by the upload service, which inserts a videos  *)
(* row per upload, and the auth service (POST /register, DELETE            *)
(* /videos/:id).  The database answers every query; a statement fails only *)
(* by violating a constraint of the table.                                 *)
(*                                                                         *)
(* Specifications: Spec (uploads and workers), FairSpec (Spec with the     *)
(* workers kept running), SpecTTL (marker keys may expire), SpecShutdown   *)
(* (workers are told to stop), SpecProbe (extractMetadata on r_frame_rate  *)
(* texts), SpecRegister (concurrent POST /register), SpecDelete (uploads   *)
(* and concurrent DELETE /videos/:id of two users), SpecList (GET /jobs     *)
(* next to one upload and one worker).                                     *)
(***************************************************************************)
EXTENDS Integers, Sequences, FiniteSets, TLC

\* ---------------------------------------------------------------- bounds
MaxJobs == 2
NumWorkers == 2
NumUploads == 2       \* upload requests in flight at once
NumRequests == 2      \* auth-service requests in flight at once
MaxFrameNum == 4      \* largest number in a probed r_frame_rate string
MaxUserSeq == 3       \* values of users_id_seq handed out to new requests

Ids == 1..MaxJobs
Workers == 1..NumWorkers

\* ------------------------------------------------------------ data model
\* A declared content type, split at the first "/" : <<type, subtype>>.
MimeTypes == { <<"video", "mp4">>, <<"audio", "mpeg">>, <<"image", "png">> }

\* String.prototype.startsWith(prefix + "/") on a content type.
StartsWith(mime, prefix) == mime[1] = prefix

\* The type check accepting image/ as well.
Mut_isSupported(mime) == \E t \in {"video", "audio", "image"} : StartsWith(mime, t)

\* supportedTypes.some(type => mimetype.startsWith(type))
isSupported(mime) == \E t \in {"video", "audio"} : StartsWith(mime, t)

NoPath == << >>
NoRec == [status |-> "none"]
NoJob == [status |-> "nojob"]
NoProgress == -1      \* the descriptor has no progress field
NoUser == 0           \* a request without a token, or whose token fails jwt.verify
NoFile == << >>       \* a request without req.files.video

\* The job object built by POST /upload (L117-130). createdAt, the time the
\* object is built, is a logical time in milliseconds.
NewJob(fileId, dbId, userId, mime, createdAt) ==
  [ id            |-> fileId,
    dbId          |-> dbId,
    userId        |-> userId,
    mimeType      |-> mime,
    status        |-> "queued",
    createdAt     |-> createdAt,
    isAudio       |-> StartsWith(mime, "audio"),
    tasks         |-> IF StartsWith(mime, "audio")
                        THEN <<"metadata", "convert">>
                        ELSE <<"thumbnail", "metadata", "compress">>,
    progress      |-> NoProgress,
    startedAt     |-> "unset",
    completedAt   |-> "unset",
    metadata      |-> FALSE,
    thumbnailPath |-> NoPath,
    compressedPath|-> NoPath,
    convertedPath |-> NoPath,
    error         |-> "unset" ]

\* path.join(outputDir, `${jobId}_<suffix>`)
OutputPath(id, suffix) == <<"/app/outputs", id, suffix>>

\* ---------------------------------------------- processVideo, job object
\* L175-177: job.status = 'processing'; job.startedAt = now; job.progress = 0
BeginProcessing(j) ==
  [j EXCEPT !.status = "processing", !.startedAt = "L176", !.progress = 0]

\* The checkpoints of the two media kinds swapped.
Mut_AfterMetadata(j) ==
  [j EXCEPT !.metadata = TRUE, !.progress = IF j.isAudio THEN 33 ELSE 50]

\* L186-187: job.metadata = metadata; job.progress = isAudio ? 50 : 33
AfterMetadata(j) ==
  [j EXCEPT !.metadata = TRUE, !.progress = IF j.isAudio THEN 50 ELSE 33]

\* The video branch taken whatever the flag.
Mut_BranchAfterMetadata(j) == "generateThumbnail"

\* L190: if (isAudio) ... else ...
BranchAfterMetadata(j) == IF j.isAudio THEN "convertAudio" ELSE "generateThumbnail"

\* L213-214: job.status = 'completed'; job.completedAt = now
FinalUpdate(j) ==
  [j EXCEPT !.status = "completed", !.completedAt = "L214"]

\* L194-195: job.convertedPath = convertedPath; job.progress = 100
AfterConvert(j) ==
  [j EXCEPT !.convertedPath = OutputPath(j.id, "_converted.mp3"), !.progress = 100]

\* L201-202: job.thumbnailPath = thumbnailPath; job.progress = 66
AfterThumbnail(j) ==
  [j EXCEPT !.thumbnailPath = OutputPath(j.id, "_thumbnail.jpg"), !.progress = 66]

\* The compressed path not recorded on the job.
Mut_AfterCompress(j) ==
  [j EXCEPT !.progress = 100]

\* L208-209: job.compressedPath = compressedPath; job.progress = 100
AfterCompress(j) ==
  [j EXCEPT !.compressedPath = OutputPath(j.id, "_compressed.mp4"), !.progress = 100]

\* The catch block recording the message without changing the status.
Mut_CaughtKeepsStatus(j, msg) ==
  [j EXCEPT !.error = msg, !.completedAt = "L227"]

\* The catch block resetting the progress.
Mut_Caught(j, msg) ==
  [j EXCEPT !.status = "failed", !.error = msg, !.completedAt = "L227", !.progress = 0]

\* L225-227: job.status = 'failed'; job.error = error.message; job.completedAt = now
Caught(j, msg) ==
  [j EXCEPT !.status = "failed", !.error = msg, !.completedAt = "L227"]

\* ------------------------------------------------------------------ state
VARIABLES
  queue,    \* Redis list video_jobs; head = left end (lPush), tail = right end (brPop)
  store,    \* Redis keys job_<id>: the last snapshot written, or NoRec
  marker,   \* ids whose key job_<id>_processing exists
  pc,       \* per worker: the await it is suspended at
  job,      \* per worker: the job object held by processVideo
  nextId,   \* next fresh fileId
  hist,     \* per id: the (status, progress) of every snapshot written, in order
  runs,     \* per id: how many times an entry was delivered and processVideo entered
  users,    \* table users: rows [id, username, email]
  videos,   \* table videos: rows [id, user_id, status]
  userSeq,  \* next value of the sequence users_id_seq
  videoSeq, \* next value of the sequence videos_id_seq
  reqs,     \* per auth-service request slot: the handler's position and bindings
  probe,    \* the extractMetadata call under study: its input and its result
  ups,      \* per upload request slot: the await POST /upload is suspended at
  pushed,   \* the ids of the descriptors put on the queue, in lPush order
  clock,    \* the createdAt of the newest descriptor put on the queue, 0 before
  lj        \* the GET /jobs request: the keys still to read, the elements read

db == <<users, videos, userSeq, videoSeq>>

vars == <<queue, store, marker, pc, job, nextId, hist, runs, users, videos,
          userSeq, videoSeq, reqs, probe, ups, pushed, clock, lj>>

UpIds == 1..NumUploads

\* Usernames are sequences of characters, so that the pattern of the
\* register validator can be applied to them.
Alice == <<"a", "l", "i", "c", "e">>
Bob == <<"b", "o", "b">>
Carol == <<"c", "a", "r", "o", "l">>


ReqIds == 1..NumRequests
Idle == [pc |-> "idle"]
NoProbe == [state |-> "none"]

Init ==
  /\ queue = << >>
  /\ store = [i \in Ids |-> NoRec]
  /\ marker = {}
  /\ pc = [w \in Workers |-> "brPop"]
  /\ job = [w \in Workers |-> NoJob]
  /\ nextId = 1
  /\ hist = [i \in Ids |-> << >>]
  /\ runs = [i \in Ids |-> 0]
  /\ users = {[id |-> 1, username |-> Alice, email |-> <<"alice", "x">>]}
  /\ videos = {}
  /\ userSeq = 2
  /\ videoSeq = 1
  /\ reqs = [r \in ReqIds |-> Idle]
  /\ probe = NoProbe
  /\ ups = [u \in UpIds |-> Idle]
  /\ pushed = << >>
  /\ clock = 0
  /\ lj = Idle

\* ------------------------------------------------------- upload service
\* The users a token can be issued for (POST /register, POST /login).
TokenHolders == {u.id : u \in users}

\* POST /upload, L82-105: authenticateToken (401, 403), the file check and
\* the type check (400), then the fileId of L98; a request that passes is
\* suspended at videoFile.mv.
StartUpload(u) ==
  /\ ups[u].pc = "idle"
  /\ nextId <= MaxJobs
  /\ \E requester \in TokenHolders \cup {NoUser}, file \in MimeTypes \cup {NoFile} :
       IF requester # NoUser /\ file # NoFile /\ isSupported(file)
         THEN /\ ups' = [ups EXCEPT ![u] = [pc |-> "mv", fileId |-> nextId,
                                            userId |-> requester, mimeType |-> file,
                                            dbId |-> 0]]
              /\ nextId' = nextId + 1
         ELSE UNCHANGED <<ups, nextId>>
  /\ UNCHANGED <<queue, store, marker, pc, job, hist, runs, db, reqs, probe, pushed, clock, lj>>

\* L105: await videoFile.mv(uploadPath); a rejection is answered 500 (L143).
UploadMv(u) ==
  /\ ups[u].pc = "mv"
  /\ \/ ups' = [ups EXCEPT ![u] = [@ EXCEPT !.pc = "insert"]]
     \/ ups' = [ups EXCEPT ![u] = Idle]
  /\ UNCHANGED <<queue, store, marker, pc, job, nextId, hist, runs, db, reqs, probe,
                 pushed, clock, lj>>

\* L108-114: INSERT INTO videos ... RETURNING id, with status 'queued'.
UploadInsert(u) ==
  /\ ups[u].pc = "insert"
  /\ videos' = videos \cup {[id |-> videoSeq, user_id |-> ups[u].userId,
                             status |-> "queued"]}
  /\ videoSeq' = videoSeq + 1
  /\ ups' = [ups EXCEPT ![u] = [@ EXCEPT !.pc = "lPush", !.dbId = videoSeq]]
  /\ UNCHANGED <<queue, store, marker, pc, job, nextId, hist, runs, users, userSeq,
                 reqs, probe, pushed, clock, lj>>

\* new Date() of L127, read when the job object is built: a time not before
\* the time of any earlier descriptor. L228 uses only the order and the
\* equality of these times, so the reading is the time of the previous
\* descriptor (the same millisecond) or the next one.
Now == {t \in {clock, clock + 1} : t > 0}

\* L117-141: the job object, await redisClient.lPush('video_jobs', ...) and
\* the response; a rejected lPush is answered 500, the row stays and the
\* object is dropped.
UploadPush(u) ==
  /\ ups[u].pc = "lPush"
  /\ \/ \E createdAt \in Now :
          /\ queue' = <<NewJob(ups[u].fileId, ups[u].dbId, ups[u].userId,
                               ups[u].mimeType, createdAt)>> \o queue
          /\ pushed' = Append(pushed, ups[u].fileId)
          /\ clock' = createdAt
     \/ UNCHANGED <<queue, pushed, clock>>
  /\ ups' = [ups EXCEPT ![u] = Idle]
  /\ UNCHANGED <<store, marker, pc, job, nextId, hist, runs, db, reqs, probe, lj>>

UploadStep(u) ==
  \/ StartUpload(u) \/ UploadMv(u) \/ UploadInsert(u) \/ UploadPush(u)

\* ----------------------------------------------------------- Redis store
\* redisClient.set(`job_${id}`, JSON.stringify(job)) that succeeded.
RedisSet(j) ==
  /\ store' = [store EXCEPT ![j.id] = j]
  /\ hist' = [hist EXCEPT ![j.id] = Append(@, <<j.status, j.progress>>)]

\* A rejection inside the try block of processVideo: control enters the
\* catch block, which updates the job object and then awaits the set of L229.
Throw(w, msg) ==
  /\ job' = [job EXCEPT ![w] = Caught(job[w], msg)]
  /\ pc' = [pc EXCEPT ![w] = "catchSet"]

\* processVideo returns (or throws to workerLoop): the iteration's job
\* binding (L244) goes out of scope.
Leave(w, next) ==
  /\ job' = [job EXCEPT ![w] = NoJob]
  /\ pc' = [pc EXCEPT ![w] = next]

\* ----------------------------------------------------------- worker loop
\* The entry read without being removed from the list.
Mut_BrPop(w) ==
  /\ pc[w] = "brPop"
  /\ queue # << >>
  /\ LET j == queue[Len(queue)] IN
       /\ job' = [job EXCEPT ![w] = BeginProcessing(j)]
       /\ runs' = [runs EXCEPT ![j.id] = @ + 1]
       /\ pc' = [pc EXCEPT ![w] = "setProcessing"]
  /\ UNCHANGED <<queue, store, marker, nextId, hist>>
  /\ UNCHANGED <<db, reqs, probe, ups, pushed, clock, lj>>

\* The entry taken from the end lPush adds to.
Mut_BrPopHead(w) ==
  /\ pc[w] = "brPop"
  /\ queue # << >>
  /\ LET j == Head(queue) IN
       /\ queue' = Tail(queue)
       /\ job' = [job EXCEPT ![w] = BeginProcessing(j)]
       /\ runs' = [runs EXCEPT ![j.id] = @ + 1]
       /\ pc' = [pc EXCEPT ![w] = "setProcessing"]
  /\ UNCHANGED <<store, marker, nextId, hist>>
  /\ UNCHANGED <<db, reqs, probe, ups, pushed, clock, lj>>

\* L241-249: brPop('video_jobs', 5)
BrPop(w) ==
  /\ pc[w] = "brPop"
  /\ \/ \* brPop throws: the catch of workerLoop
        /\ pc' = [pc EXCEPT ![w] = "backoff"]
        /\ UNCHANGED <<queue, job, runs>>
     \/ \* timeout, null
        /\ queue = << >>
        /\ pc' = [pc EXCEPT ![w] = "delay"]
        /\ UNCHANGED <<queue, job, runs>>
     \/ \* an entry is delivered; processVideo(job) is entered
        /\ queue # << >>
        /\ LET j == queue[Len(queue)] IN
             /\ queue' = SubSeq(queue, 1, Len(queue) - 1)
             /\ job' = [job EXCEPT ![w] = BeginProcessing(j)]
             /\ runs' = [runs EXCEPT ![j.id] = @ + 1]
             /\ pc' = [pc EXCEPT ![w] = "setProcessing"]
  /\ UNCHANGED <<store, marker, nextId, hist>>
  /\ UNCHANGED <<db, reqs, probe, ups, pushed, clock, lj>>

\* L178: await redisClient.set(`job_${id}`, ...)
SetProcessing(w) ==
  /\ pc[w] = "setProcessing"
  /\ \/ /\ RedisSet(job[w])
        /\ pc' = [pc EXCEPT ![w] = "setMarker"]
        /\ UNCHANGED job
     \/ /\ Throw(w, "redis")
        /\ UNCHANGED <<store, hist>>
  /\ UNCHANGED <<queue, marker, nextId, runs>>
  /\ UNCHANGED <<db, reqs, probe, ups, pushed, clock, lj>>

\* L179: await redisClient.set(`job_${id}_processing`, '1', { EX: 3600 })
SetMarker(w) ==
  /\ pc[w] = "setMarker"
  /\ \/ /\ marker' = marker \cup {job[w].id}
        /\ pc' = [pc EXCEPT ![w] = "extractMetadata"]
        /\ UNCHANGED job
     \/ /\ Throw(w, "redis")
        /\ UNCHANGED marker
  /\ UNCHANGED <<queue, store, nextId, hist, runs>>
  /\ UNCHANGED <<db, reqs, probe, ups, pushed, clock, lj>>

\* L185-187: await extractMetadata(filePath)
ExtractMetadata(w) ==
  /\ pc[w] = "extractMetadata"
  /\ \/ /\ job' = [job EXCEPT ![w] = AfterMetadata(job[w])]
        /\ pc' = [pc EXCEPT ![w] = "setMetadata"]
     \/ Throw(w, "ffprobe")
  /\ UNCHANGED <<queue, store, marker, nextId, hist, runs>>
  /\ UNCHANGED <<db, reqs, probe, ups, pushed, clock, lj>>

\* L188: await redisClient.set(`job_${id}`, ...)
SetMetadata(w) ==
  /\ pc[w] = "setMetadata"
  /\ \/ /\ RedisSet(job[w])
        /\ pc' = [pc EXCEPT ![w] = BranchAfterMetadata(job[w])]
        /\ UNCHANGED job
     \/ /\ Throw(w, "redis")
        /\ UNCHANGED <<store, hist>>
  /\ UNCHANGED <<queue, marker, nextId, runs>>
  /\ UNCHANGED <<db, reqs, probe, ups, pushed, clock, lj>>

\* L193-195, L213-214: await convertAudio(...), then the final update
ConvertAudio(w) ==
  /\ pc[w] = "convertAudio"
  /\ \/ /\ job' = [job EXCEPT ![w] = FinalUpdate(AfterConvert(job[w]))]
        /\ pc' = [pc EXCEPT ![w] = "setFinal"]
     \/ Throw(w, "ffmpeg convert")
  /\ UNCHANGED <<queue, store, marker, nextId, hist, runs>>
  /\ UNCHANGED <<db, reqs, probe, ups, pushed, clock, lj>>

\* L200-202: await generateThumbnail(...)
GenerateThumbnail(w) ==
  /\ pc[w] = "generateThumbnail"
  /\ \/ /\ job' = [job EXCEPT ![w] = AfterThumbnail(job[w])]
        /\ pc' = [pc EXCEPT ![w] = "setThumbnail"]
     \/ Throw(w, "ffmpeg thumbnail")
  /\ UNCHANGED <<queue, store, marker, nextId, hist, runs>>
  /\ UNCHANGED <<db, reqs, probe, ups, pushed, clock, lj>>

\* L203: await redisClient.set(`job_${id}`, ...)
SetThumbnail(w) ==
  /\ pc[w] = "setThumbnail"
  /\ \/ /\ RedisSet(job[w])
        /\ pc' = [pc EXCEPT ![w] = "compressVideo"]
        /\ UNCHANGED job
     \/ /\ Throw(w, "redis")
        /\ UNCHANGED <<store, hist>>
  /\ UNCHANGED <<queue, marker, nextId, runs>>
  /\ UNCHANGED <<db, reqs, probe, ups, pushed, clock, lj>>

\* L207-209, L213-214: await compressVideo(...), then the final update
CompressVideo(w) ==
  /\ pc[w] = "compressVideo"
  /\ \/ /\ job' = [job EXCEPT ![w] = FinalUpdate(AfterCompress(job[w]))]
        /\ pc' = [pc EXCEPT ![w] = "setFinal"]
     \/ Throw(w, "ffmpeg compress")
  /\ UNCHANGED <<queue, store, marker, nextId, hist, runs>>
  /\ UNCHANGED <<db, reqs, probe, ups, pushed, clock, lj>>

\* The final write also updating the status of the job's videos row.
Mut_SetFinal(w) ==
  /\ pc[w] = "setFinal"
  /\ RedisSet(job[w])
  /\ pc' = [pc EXCEPT ![w] = "delMarker"]
  /\ videos' = {IF v.id = job[w].dbId THEN [v EXCEPT !.status = job[w].status] ELSE v :
                  v \in videos}
  /\ UNCHANGED <<queue, marker, nextId, runs, job, users, userSeq, videoSeq, reqs, probe,
                 ups, pushed, clock, lj>>

\* L217: await redisClient.set(`job_${id}`, ...)
SetFinal(w) ==
  /\ pc[w] = "setFinal"
  /\ \/ /\ RedisSet(job[w])
        /\ pc' = [pc EXCEPT ![w] = "delMarker"]
        /\ UNCHANGED job
     \/ /\ Throw(w, "redis")
        /\ UNCHANGED <<store, hist>>
  /\ UNCHANGED <<queue, marker, nextId, runs>>
  /\ UNCHANGED <<db, reqs, probe, ups, pushed, clock, lj>>

\* L218: await redisClient.del(`job_${id}_processing`); processVideo returns
DelMarker(w) ==
  /\ pc[w] = "delMarker"
  /\ \/ /\ marker' = marker \ {job[w].id}
        /\ Leave(w, "delay")
     \/ /\ Throw(w, "redis")
        /\ UNCHANGED marker
  /\ UNCHANGED <<queue, store, nextId, hist, runs>>
  /\ UNCHANGED <<db, reqs, probe, ups, pushed, clock, lj>>

\* L229: await redisClient.set(`job_${id}`, ...) in the catch block; a
\* rejection here leaves processVideo and is caught by workerLoop (L254).
CatchSet(w) ==
  /\ pc[w] = "catchSet"
  /\ \/ /\ RedisSet(job[w])
        /\ pc' = [pc EXCEPT ![w] = "catchDel"]
        /\ UNCHANGED job
     \/ /\ Leave(w, "backoff")
        /\ UNCHANGED <<store, hist>>
  /\ UNCHANGED <<queue, marker, nextId, runs>>
  /\ UNCHANGED <<db, reqs, probe, ups, pushed, clock, lj>>

\* The catch block returning without deleting the marker key.
Mut_CatchDel(w) ==
  /\ pc[w] = "catchDel"
  /\ Leave(w, "delay")
  /\ UNCHANGED <<queue, store, marker, nextId, hist, runs>>
  /\ UNCHANGED <<db, reqs, probe, ups, pushed, clock, lj>>

\* L230: await redisClient.del(`job_${id}_processing`) in the catch block
CatchDel(w) ==
  /\ pc[w] = "catchDel"
  /\ \/ /\ marker' = marker \ {job[w].id}
        /\ Leave(w, "delay")
     \/ /\ Leave(w, "backoff")
        /\ UNCHANGED marker
  /\ UNCHANGED <<queue, store, nextId, hist, runs>>
  /\ UNCHANGED <<db, reqs, probe, ups, pushed, clock, lj>>

\* L252: the 100 ms delay at the end of an iteration
Delay(w) ==
  /\ pc[w] = "delay"
  /\ pc' = [pc EXCEPT ![w] = "brPop"]
  /\ UNCHANGED <<queue, store, marker, job, nextId, hist, runs>>
  /\ UNCHANGED <<db, reqs, probe, ups, pushed, clock, lj>>

\* The catch of workerLoop ending the loop instead of retrying.
Mut_Backoff(w) ==
  /\ pc[w] = "backoff"
  /\ pc' = [pc EXCEPT ![w] = "stopped"]
  /\ UNCHANGED <<queue, store, marker, job, nextId, hist, runs>>
  /\ UNCHANGED <<db, reqs, probe, ups, pushed, clock, lj>>

\* L256: the 5 s wait of the catch of workerLoop
Backoff(w) ==
  /\ pc[w] = "backoff"
  /\ pc' = [pc EXCEPT ![w] = "brPop"]
  /\ UNCHANGED <<queue, store, marker, job, nextId, hist, runs>>
  /\ UNCHANGED <<db, reqs, probe, ups, pushed, clock, lj>>

WorkerStep(w) ==
  \/ BrPop(w) \/ SetProcessing(w) \/ SetMarker(w) \/ ExtractMetadata(w)
  \/ SetMetadata(w) \/ ConvertAudio(w) \/ GenerateThumbnail(w)
  \/ SetThumbnail(w) \/ CompressVideo(w) \/ SetFinal(w) \/ DelMarker(w)
  \/ CatchSet(w) \/ CatchDel(w) \/ Delay(w) \/ Backoff(w)

Next ==
  \/ \E u \in UpIds : UploadStep(u)
  \/ \E w \in Workers : WorkerStep(w)

Spec == Init /\ [][Next]_vars

\* The key job_<id>_processing expires (EX: 3600, L179).
MarkerExpire ==
  \E i \in marker :
    /\ marker' = marker \ {i}
    /\ UNCHANGED <<queue, store, pc, job, nextId, hist, runs>>
    /\ UNCHANGED <<db, reqs, probe, ups, pushed, clock, lj>>

NextTTL ==
  \/ Next
  \/ MarkerExpire

\* Runs that may last longer than the TTL of the marker key.
SpecTTL == Init /\ [][NextTTL]_vars

\* A termination signal reaches a worker process.  worker.js installs no
\* signal handler and workerLoop (L238) tests no flag, so the process ends
\* at whatever await it is suspended at.
Shutdown(w) ==
  /\ pc[w] # "exited"
  /\ Leave(w, "exited")
  /\ UNCHANGED <<queue, store, marker, nextId, hist, runs>>
  /\ UNCHANGED <<db, reqs, probe, ups, pushed, clock, lj>>

NextShutdown ==
  \/ Next
  \/ \E w \in Workers : Shutdown(w)

\* Runs in which worker processes are told to stop.
SpecShutdown == Init /\ [][NextShutdown]_vars

\* Every worker keeps running: a suspended await eventually settles, and a
\* brPop that is retried against a non-empty list eventually delivers
\* (infrastructure failures are transient).
FairSpec ==
  /\ Spec
  /\ \A w \in Workers : WF_vars(WorkerStep(w))
  /\ \A w \in Workers : SF_vars(BrPop(w) /\ queue' # queue)

TypeOK ==
  /\ nextId \in 1..(MaxJobs + 1)
  /\ marker \subseteq Ids
  /\ \A i \in Ids : store[i].status \in {"none", "processing", "completed", "failed"}
  /\ \A u \in UpIds : ups[u].pc \in {"idle", "mv", "insert", "lPush"}
  /\ \A k \in 1..Len(pushed) : pushed[k] \in Ids
  /\ lj.pc \in {"idle", "get", "done"}
  /\ clock \in 0..MaxJobs

\* ------------------------------------------------------------ vocabulary
Terminal == {"completed", "failed"}

\* The worker is inside processVideo.
InFlight(w) == job[w] # NoJob

\* error.message of a rejected transform (as opposed to a Redis command).
TransformErrors == {"ffprobe", "ffmpeg thumbnail", "ffmpeg convert", "ffmpeg compress"}

\* The record carries metadata and every artifact of its task list.
FullArtifactSet(r) ==
  /\ r.metadata
  /\ IF r.isAudio THEN r.convertedPath # NoPath
                  ELSE r.thumbnailPath # NoPath /\ r.compressedPath # NoPath

\* Number of terminal snapshots among those written for id i.
TerminalWrites(i) ==
  Cardinality({k \in 1..Len(hist[i]) : hist[i][k][1] \in Terminal})

InQueue(i) == \E k \in 1..Len(queue) : queue[k].id = i

\* The descriptor with id i was put on the queue.
Enqueued(i) == \E k \in 1..Len(pushed) : pushed[k] = i

\* -------------------------------------------------------------------- C1
\* C1: every enqueued job's record eventually has status completed or
\* failed, when no worker crashes and the workers keep running.
C1_EventuallyTerminal ==
  \A i \in Ids : Enqueued(i) ~> (store[i].status \in Terminal)

\* -------------------------------------------------------------------- C2
\* C2: once the stored record of a job id is completed or failed, no later
\* write changes that record's status.
C2_TerminalNeverExited ==
  [][\A i \in Ids : store[i].status \in Terminal
                      => store'[i].status = store[i].status]_vars

\* -------------------------------------------------------------------- C3
\* C3: every stored record with status completed has progress 100, has
\* metadata, and has exactly the artifacts of its media kind: thumbnailPath
\* and compressedPath for video, convertedPath for audio.
C3_CompletedIsFull ==
  \A i \in Ids : store[i].status = "completed" =>
    /\ store[i].progress = 100
    /\ store[i].metadata
    /\ IF store[i].isAudio
         THEN /\ store[i].convertedPath = OutputPath(i, "_converted.mp3")
              /\ store[i].thumbnailPath = NoPath
              /\ store[i].compressedPath = NoPath
         ELSE /\ store[i].thumbnailPath = OutputPath(i, "_thumbnail.jpg")
              /\ store[i].compressedPath = OutputPath(i, "_compressed.mp4")
              /\ store[i].convertedPath = NoPath

\* A completed video record and a completed audio record are both stored.
C3_Witness ==
  \E i, k \in Ids :
    /\ store[i].status = "completed" /\ store[i].isAudio
    /\ store[k].status = "completed" /\ ~store[k].isAudio

\* -------------------------------------------------------------------- C4
\* C4: a stored record with status failed never carries the full artifact
\* set (with metadata) of its task list.
C4_FailedNeverFull ==
  \A i \in Ids : store[i].status = "failed" => ~FullArtifactSet(store[i])

\* -------------------------------------------------------------------- C5
\* C5: for every job id, the progress of the successive snapshots written
\* to the store never decreases, failed runs included.
C5_ProgressMonotone ==
  \A i \in Ids : \A k \in 1..(Len(hist[i]) - 1) : hist[i][k][2] <= hist[i][k+1][2]

\* A run that wrote progress checkpoints and then ended in a failed snapshot.
C5_Witness ==
  \E i \in Ids :
    /\ Len(hist[i]) >= 3
    /\ hist[i][Len(hist[i])][1] = "failed"
    /\ hist[i][Len(hist[i])][2] > 0

\* -------------------------------------------------------------------- C6
\* C6: with several workers on one queue every entry is delivered to exactly
\* one worker: each enqueued job is run by processVideo exactly once, is
\* held by one worker at a time, is not skipped, and gets a terminal
\* snapshot exactly once.
C6_ExactlyOnce ==
  /\ \A i \in Ids : runs[i] <= 1
  /\ \A w1, w2 \in Workers :
       (w1 # w2 /\ job[w1] # NoJob /\ job[w2] # NoJob) => job[w1].id # job[w2].id
  /\ \A i \in Ids : Enqueued(i) => (InQueue(i) \/ runs[i] = 1)
  /\ \A i \in Ids : TerminalWrites(i) <= 1
  /\ \A i \in Ids :
       (runs[i] = 1 /\ ~\E w \in Workers : InFlight(w) /\ job[w].id = i)
         => TerminalWrites(i) = 1

\* -------------------------------------------------------------------- C7
\* C7: when a transform task fails, no later task of the job is started,
\* and when processVideo is left the record is stored as failed with the
\* failure message, the marker is deleted, and the job is not run again.
C7_TransformFailure ==
  [][\A w \in Workers :
       (job[w] # NoJob /\ job[w].error \in TransformErrors) =>
         /\ pc[w] \in {"catchSet", "catchDel"}
         /\ runs'[job[w].id] = 1
         /\ job'[w] = NoJob =>
              /\ store'[job[w].id].status = "failed"
              /\ store'[job[w].id].error = job[w].error
              /\ job[w].id \notin marker']_vars

\* -------------------------------------------------------------------- C8
\* C8 (as claimed): the snapshots of a completed job are Queued,
\* Processing(33), Processing(66), Completed(100) for video and Queued,
\* Processing(50), Completed(100) for audio, and no other progress value
\* is persisted.
ClaimedSnapshots(isAudio) ==
  IF isAudio
    THEN << <<"processing", 50>>, <<"completed", 100>> >>
    ELSE << <<"processing", 33>>, <<"processing", 66>>, <<"completed", 100>> >>

WithoutQueued(h) ==
  IF h # << >> /\ h[1][1] = "queued" THEN Tail(h) ELSE h

C8_SnapshotsAsClaimed ==
  \A i \in Ids : store[i].status = "completed" =>
    WithoutQueued(hist[i]) = ClaimedSnapshots(store[i].isAudio)

\* C8 (amended): the snapshots written up to and including the completed
\* one are Processing(0), Processing(33), Processing(66), Completed(100)
\* for video and Processing(0), Processing(50), Completed(100) for audio;
\* no queued snapshot is stored, and every persisted progress value is one
\* of 0, 33, 66, 100 (video) or 0, 50, 100 (audio).
WrittenSnapshots(isAudio) ==
  << <<"processing", 0>> >> \o ClaimedSnapshots(isAudio)

Checkpoints(isAudio) == IF isAudio THEN {0, 50, 100} ELSE {0, 33, 66, 100}

C8_Snapshots ==
  \A i \in Ids :
    /\ \A k \in 1..Len(hist[i]) :
         /\ hist[i][k][1] # "queued"
         /\ hist[i][k][2] \in Checkpoints(store[i].isAudio)
    /\ (\E k \in 1..Len(hist[i]) : hist[i][k][1] = "completed") =>
         LET n == Len(WrittenSnapshots(store[i].isAudio)) IN
           /\ Len(hist[i]) >= n
           /\ SubSeq(hist[i], 1, n) = WrittenSnapshots(store[i].isAudio)

\* A video job and an audio job have both been completed.
C8_Witness ==
  \E i, k \in Ids :
    /\ hist[i] = WrittenSnapshots(TRUE) /\ store[i].isAudio
    /\ hist[k] = WrittenSnapshots(FALSE) /\ ~store[k].isAudio

\* -------------------------------------------------------------------- C9
\* C9: no record of an audio job has thumbnailPath or compressedPath, no
\* record of a video job has convertedPath, and the branch a worker is in
\* agrees with the job's isAudio flag, which is fixed by the content type.
C9_BranchByKind ==
  /\ \A i \in Ids : store[i] # NoRec =>
       IF store[i].isAudio
         THEN store[i].thumbnailPath = NoPath /\ store[i].compressedPath = NoPath
         ELSE store[i].convertedPath = NoPath
  /\ \A w \in Workers : job[w] # NoJob =>
       /\ job[w].isAudio = StartsWith(job[w].mimeType, "audio")
       /\ pc[w] = "convertAudio" => job[w].isAudio
       /\ pc[w] \in {"generateThumbnail", "setThumbnail", "compressVideo"} => ~job[w].isAudio
       /\ IF job[w].isAudio
            THEN job[w].thumbnailPath = NoPath /\ job[w].compressedPath = NoPath
            ELSE job[w].convertedPath = NoPath

\* An audio record with its converted file and a video record with its
\* thumbnail are stored.
C9_Witness ==
  \E i, k \in Ids :
    /\ store[i] # NoRec /\ store[i].isAudio /\ store[i].convertedPath # NoPath
    /\ store[k] # NoRec /\ ~store[k].isAudio /\ store[k].thumbnailPath # NoPath

\* ------------------------------------------------------------------- C10
\* C10: a worker goes back to the loop, to issue its next brPop, only after
\* the job it dequeued has a completed or failed record in the store.
C10_TerminalBeforeNextPop ==
  [][\A w \in Workers :
       (job[w] # NoJob /\ job'[w] = NoJob)
         => store'[job[w].id].status \in Terminal]_vars

\* ------------------------------------------------------------------- C11
\* C11: when a Redis set or del fails while a job is in flight, the job's
\* stored record stays equal to the last snapshot written successfully: the
\* failure does not make the record failed and alters no stored field.
C11_StoreFailureKeepsRecord ==
  [][\A w \in Workers :
       (job[w] # NoJob /\ job[w].error = "redis")
         => store'[job[w].id] = store[job[w].id]]_vars

\* ------------------------------------------------------------------- C12
\* C12: the worker loop never ends on an infrastructure error: after a
\* throw it waits the backoff and polls the queue again, so every queued
\* job is eventually dequeued once brPop works again; the retry polls the
\* queue and never runs a job a second time.
C12_LoopSurvivesErrors ==
  /\ \A i \in Ids : InQueue(i) ~> (runs[i] = 1)
  /\ [][\A w \in Workers :
          (pc[w] = "backoff" /\ pc'[w] # "backoff")
            => (pc'[w] = "brPop" /\ job'[w] = NoJob)]_vars
  /\ [](\A i \in Ids : runs[i] <= 1)

\* A worker is in the backoff wait after abandoning a job whose record is
\* not terminal, and another job is waiting in the queue.
C12_Witness ==
  \E w \in Workers, i \in Ids :
    /\ pc[w] = "backoff"
    /\ runs[i] = 1 /\ store[i].status \notin Terminal
    /\ \A v \in Workers : ~(job[v] # NoJob /\ job[v].id = i)
    /\ queue # << >>

\* ------------------------------------------------------------------- C13
\* C13: every write to job_<id> and to job_<id>_processing is made by the
\* one worker that dequeued the job: the step that changes them is a step
\* of a worker holding that id, no other worker holds it, and the id was
\* delivered once.
C13_SingleOwner ==
  [][\A i \in Ids :
       (store'[i] # store[i] \/ hist'[i] # hist[i] \/ (i \in marker') # (i \in marker))
         => /\ runs[i] = 1
            /\ \E w \in Workers :
                 /\ job[w] # NoJob /\ job[w].id = i
                 /\ pc'[w] # pc[w]
                 /\ \A v \in Workers \ {w} : ~(job[v] # NoJob /\ job[v].id = i)]_vars

\* Two workers are both inside processVideo, each having written its own
\* job's record and marker.
C13_Witness ==
  \E w, v \in Workers :
    /\ w # v /\ job[w] # NoJob /\ job[v] # NoJob
    /\ store[job[w].id] # NoRec /\ store[job[v].id] # NoRec
    /\ {job[w].id, job[v].id} \subseteq marker

\* ------------------------------------------------------------------- C14
\* C14: the queue is FIFO: lPush adds at one end and brPop removes from the
\* other, so jobs are delivered in the order they were enqueued (pushed
\* records the lPush order, which need not be the order of the ids), and a
\* delivered entry is no longer queued.
C14_Fifo ==
  LET n == Len(pushed)
      q == Len(queue)
  IN /\ q <= n
     /\ \A k \in 1..q : queue[k].id = pushed[n - k + 1]
     /\ \A k \in 1..n : (k <= n - q) <=> (runs[pushed[k]] >= 1)

\* Two uploads overlapped so that the later id was pushed first; it has been
\* delivered and the earlier id is still queued.
C14_Witness ==
  /\ Len(pushed) = 2
  /\ pushed[1] > pushed[2]
  /\ Len(queue) = 1
  /\ runs[pushed[1]] = 1

\* ------------------------------------------------------------------- C15
\* C15: without a process crash no job disappears: every enqueued job is
\* at every moment in the queue, held by a worker running it, or has a
\* record in the store.
C15_NoSilentLoss ==
  \A i \in Ids : Enqueued(i) =>
    \/ InQueue(i)
    \/ \E w \in Workers : job[w] # NoJob /\ job[w].id = i
    \/ store[i] # NoRec

\* ------------------------------------------------------------------- C16
\* C16 (as claimed): whenever the marker job_<id>_processing is present,
\* the stored status of the job is processing.
C16_MarkerOnlyWhileProcessing ==
  \A i \in marker : store[i].status = "processing"

\* C16 (amended): the marker is set once per job, right after the first
\* processing snapshot and never after the record became completed or
\* failed.  Whenever it is present the stored status is processing, or the
\* record is terminal and the worker running the job, if any, is between
\* the terminal write and the end of processVideo: the terminal snapshot is
\* written before the del is issued, and when processVideo returns without
\* throwing the record is terminal and the marker is deleted.
C16_Marker ==
  /\ [](\A i \in marker :
          \/ store[i].status = "processing"
          \/ /\ store[i].status \in Terminal
             /\ \A w \in Workers :
                  (job[w] # NoJob /\ job[w].id = i)
                    => pc[w] \in {"delMarker", "catchSet", "catchDel"})
  /\ [](\A w \in Workers :
          pc[w] \in {"delMarker", "catchDel"} => store[job[w].id].status \in Terminal)
  /\ [][\A i \in Ids :
          (i \notin marker /\ i \in marker')
            => (store[i].status = "processing" /\ Len(hist[i]) = 1)]_vars
  /\ [][\A w \in Workers :
          (job[w] # NoJob /\ job'[w] = NoJob /\ pc'[w] = "delay")
            => /\ job[w].id \notin marker'
               /\ store'[job[w].id].status \in Terminal]_vars

\* The marker of a running job has expired, and the marker of another job
\* is still present next to its terminal record.
C16_Witness ==
  \E i, k \in Ids :
    /\ i \notin marker /\ store[i].status = "processing"
    /\ \E w \in Workers : job[w] # NoJob /\ job[w].id = i /\ pc[w] = "setMetadata"
    /\ k \in marker /\ store[k].status \in Terminal

\* ------------------------------------------------------------------- C17
\* C17: startedAt and completedAt are each assigned at most once: once set
\* on the job, no later step of processVideo assigns it again.
C17_TimestampsSetOnce ==
  [][\A w \in Workers :
       (job[w] # NoJob /\ job'[w] # NoJob) =>
         /\ job[w].startedAt # "unset" => job'[w].startedAt = job[w].startedAt
         /\ job[w].completedAt # "unset" => job'[w].completedAt = job[w].completedAt]_vars

\* ------------------------------------------------------------------- C18
\* C18: a record has an error field only if its status is failed: no
\* completed or processing record carries error, on the job object as in
\* the store, and error is assigned together with the failed status.
C18_ErrorOnlyWhenFailed ==
  /\ \A i \in Ids : store[i] # NoRec =>
       (store[i].error # "unset" => store[i].status = "failed")
  /\ \A w \in Workers : job[w] # NoJob =>
       (job[w].error # "unset" <=> job[w].status = "failed")

\* A failed record with its message and a completed record are stored.
C18_Witness ==
  \E i, k \in Ids :
    /\ store[i].status = "failed" /\ store[i].error \in TransformErrors
    /\ store[k].status = "completed" /\ store[k].error = "unset"

\* ------------------------------------------------------------------- C19
\* GET /status/:jobId (upload-service/server.js L294-321): 404 when the key
\* job_<jobId> is absent, else status and progress || 0 of the record.
StatusQuery(i) ==
  IF store[i] = NoRec
    THEN [code |-> 404, status |-> "Job not found", progress |-> 0]
    ELSE [code |-> 200, status |-> store[i].status,
          progress |-> IF store[i].progress = NoProgress THEN 0 ELSE store[i].progress]

\* C19: from the enqueue of a job until a worker dequeues it, a status
\* query for its id finds the job and reports status queued, progress 0.
C19_QueuedIsVisible ==
  \A i \in Ids : InQueue(i) =>
    /\ StatusQuery(i).code = 200
    /\ StatusQuery(i).status = "queued"
    /\ StatusQuery(i).progress = 0

\* ------------------------------------------------------------------- C20
\* C20: shutdown is graceful: the loop ends only between iterations, after
\* the job in flight has got its terminal record.
C20_GracefulShutdown ==
  [][\A w \in Workers :
       (pc[w] # "exited" /\ pc'[w] = "exited") =>
         /\ pc[w] \in {"brPop", "delay", "backoff"}
         /\ job[w] = NoJob]_vars

\* ------------------------------------------------------------------- C21
\* The names of the Redis keys the worker writes.
JobKey(i) == <<"job_", i>>
MarkerKey(i) == <<"job_", i, "_processing">>

\* The key exists in Redis now.
Exists(k) == IF Len(k) = 2 THEN store[k[2]] # NoRec ELSE k[2] \in marker

\* redisClient.keys('job_*'): every existing key whose name starts with "job_".
KeysMatchingJobPrefix ==
  {k \in {JobKey(i) : i \in Ids} \cup {MarkerKey(i) : i \in Ids} :
     k[1] = "job_" /\ Exists(k)}

\* JSON.parse of the value of an existing key: a job key holds the JSON of
\* the last snapshot, a marker key holds the string '1', which parses to
\* the number 1.
ParsedValue(k) == IF Len(k) = 2 THEN store[k[2]] ELSE [number |-> 1]

\* The comparator of L228, new Date(b.createdAt) - new Date(a.createdAt): an
\* element without createdAt gives an invalid date, the difference is NaN
\* and sort reads NaN as 0.
Compare(a, b) ==
  IF "createdAt" \in DOMAIN a /\ "createdAt" \in DOMAIN b
    THEN b.createdAt - a.createdAt
    ELSE 0

\* The comparator is consistent when "compares equal" is transitive.
Consistent(js) ==
  \A i, j, k \in 1..Len(js) :
    (Compare(js[i], js[j]) = 0 /\ Compare(js[j], js[k]) = 0) => Compare(js[i], js[k]) = 0

Orders(n) == {p \in [1..n -> 1..n] : \A i, j \in 1..n : p[i] = p[j] => i = j}

\* The stable sort of js under a consistent comparator: each element goes
\* behind the elements already placed that do not compare after it.
RECURSIVE StableSort(_)
StableSort(js) ==
  IF js = << >>
    THEN << >>
    ELSE LET init == StableSort(SubSeq(js, 1, Len(js) - 1))
             e == js[Len(js)]
             k == Cardinality({i \in 1..Len(init) : Compare(init[i], e) <= 0})
         IN SubSeq(init, 1, k) \o <<e>> \o SubSeq(init, k + 1, Len(init))

\* jobs.sort(comparator): the stable sort when the comparator is consistent,
\* an implementation-defined order of the same elements when it is not.
Sorted(js) ==
  IF Consistent(js)
    THEN {StableSort(js)}
    ELSE {[i \in 1..Len(js) |-> js[p[i]]] : p \in Orders(Len(js))}

ListFailed == [pc |-> "done", code |-> 500, jobs |-> << >>]

\* GET /jobs, L217: await redisClient.keys('job_*'). With no key the loop is
\* empty and the handler answers at once; a rejection is answered 500.
ListKeys ==
  /\ lj.pc \in {"idle", "done"}
  /\ \/ lj' = IF KeysMatchingJobPrefix = {}
                THEN [pc |-> "done", code |-> 200, jobs |-> << >>]
                ELSE [pc |-> "get", keys |-> KeysMatchingJobPrefix, jobs |-> << >>]
     \/ lj' = ListFailed
  /\ UNCHANGED <<queue, store, marker, pc, job, nextId, hist, runs, db, reqs, probe,
                 ups, pushed, clock>>

\* GET /jobs, L220-230: await redisClient.get(key) for the next key of the
\* array (keys answers in no particular order); a key that is gone by now
\* answers null and is skipped. After the last key the handler sorts and
\* answers. A rejection is answered 500.
ListGet ==
  /\ lj.pc = "get"
  /\ \/ \E k \in lj.keys :
          LET jobs == IF Exists(k) THEN Append(lj.jobs, ParsedValue(k)) ELSE lj.jobs
              rest == lj.keys \ {k}
          IN IF rest = {}
               THEN \E out \in Sorted(jobs) :
                      lj' = [pc |-> "done", code |-> 200, jobs |-> out]
               ELSE lj' = [pc |-> "get", keys |-> rest, jobs |-> jobs]
     \/ lj' = ListFailed
  /\ UNCHANGED <<queue, store, marker, pc, job, nextId, hist, runs, db, reqs, probe,
                 ups, pushed, clock>>

ListJobs == ListKeys \/ ListGet

\* The GET /jobs handler next to one upload request at a time and one worker.
NextList ==
  \/ UploadStep(1)
  \/ WorkerStep(1)
  \/ ListJobs

SpecList == Init /\ [][NextList]_vars

\* C21: every element returned by GET /jobs is a job snapshot with a status
\* field, also while a job is being processed and its marker key exists.
C21_ListOnlyJobRecords ==
  (lj.pc = "done" /\ lj.code = 200) =>
    \A k \in 1..Len(lj.jobs) : "status" \in DOMAIN lj.jobs[k]

\* ------------------------------------------------------------------- C22
\* The texts ffprobe can hand over as r_frame_rate of the video stream, by
\* their JavaScript reading: a binary expression of two decimal literals,
\* or another source text.
FrameRateStrings ==
  [left : 0..MaxFrameNum, op : {"/", "+", "-", "*"}, right : 0..MaxFrameNum]
    \cup {[code |-> ""], [code |-> "N/A"], [code |-> "process.exit(1)"]}

\* The text has the form n/d.
IsRational(s) == "op" \in DOMAIN s /\ s.op = "/"

\* JavaScript values: a finite number num/den (den > 0), Infinity (1/0),
\* NaN (0/0), undefined.
Num(a, b) == [type |-> "number", num |-> a, den |-> b]
Undefined == [type |-> "undefined", num |-> 0, den |-> 0]

\* The JavaScript operator / on two numbers.
JsDivide(a, b) ==
  IF b # 0 THEN Num(a, b) ELSE IF a = 0 THEN Num(0, 0) ELSE Num(1, 0)

\* eval(text): the completion of running the text as a program.
JsEval(s) ==
  IF "op" \in DOMAIN s
    THEN [completion |-> "normal",
          value |-> CASE s.op = "/" -> JsDivide(s.left, s.right)
                      [] s.op = "+" -> Num(s.left + s.right, 1)
                      [] s.op = "-" -> Num(s.left - s.right, 1)
                      [] s.op = "*" -> Num(s.left * s.right, 1)]
    ELSE CASE s.code = "" -> [completion |-> "normal", value |-> Undefined]
           [] s.code = "N/A" -> [completion |-> "thrown", value |-> Undefined]
           [] s.code = "process.exit(1)" -> [completion |-> "exited", value |-> Undefined]

\* ToBoolean of a value: 0, NaN and undefined are falsy.
Truthy(v) == v.type = "number" /\ v.num # 0

\* value || 0
OrZero(v) == IF Truthy(v) THEN v ELSE Num(0, 1)

\* extractMetadata is called on a file whose video stream has the given
\* r_frame_rate (a file without video stream evaluates nothing).
ProbeCall ==
  /\ probe.state # "called"
  /\ \E s \in FrameRateStrings : probe' = [state |-> "called", input |-> s]
  /\ UNCHANGED <<queue, store, marker, pc, job, nextId, hist, runs, ups, pushed, clock, lj, db, reqs>>

\* The ffprobe callback (L110-133): reject(err), or
\* fps: eval(videoStream.r_frame_rate) || 0 and resolve.  When eval does
\* not complete normally the promise is neither resolved nor rejected.
ProbeSettle ==
  /\ probe.state = "called"
  /\ \/ probe' = [state |-> "rejected", input |-> probe.input]
     \/ LET c == JsEval(probe.input) IN
          probe' = IF c.completion = "normal"
                     THEN [state |-> "resolved", input |-> probe.input,
                           fps |-> OrZero(c.value)]
                     ELSE [state |-> c.completion, input |-> probe.input]
  /\ UNCHANGED <<queue, store, marker, pc, job, nextId, hist, runs, ups, pushed, clock, lj, db, reqs>>

NextProbe ==
  \/ ProbeCall
  \/ ProbeSettle

\* Runs of extractMetadata alone, over the r_frame_rate texts.
SpecProbe == Init /\ [][NextProbe]_vars

\* The value is the finite number n/d.
IsQuotient(v, n, d) == v.type = "number" /\ v.den # 0 /\ v.num * d = n * v.den

\* C22: for every text n/d with d > 0 the frame rate probe returns is n
\* divided by d, and a text that is not of that form is rejected or yields
\* 0 without being run as code.
C22_FrameRateParsed ==
  probe.state \notin {"none", "called"} =>
    IF IsRational(probe.input) /\ probe.input.right > 0
      THEN probe.state = "resolved"
             => IsQuotient(probe.fps, probe.input.left, probe.input.right)
      ELSE \/ probe.state = "rejected"
           \/ probe.state = "resolved" /\ probe.fps = Num(0, 1)

\* ------------------------------------------------------------------- C23
\* C23: every descriptor on the queue has a content type starting with
\* video/ or audio/, has isAudio true exactly when the type starts with
\* audio/, has status queued, and comes from a request with a file and a
\* valid token: no other upload adds a queue entry.
C23_QueuedDescriptors ==
  \A k \in 1..Len(queue) :
    LET d == queue[k] IN
      /\ d.mimeType # NoFile
      /\ StartsWith(d.mimeType, "video") \/ StartsWith(d.mimeType, "audio")
      /\ d.isAudio <=> StartsWith(d.mimeType, "audio")
      /\ d.status = "queued"
      /\ d.userId # NoUser /\ d.userId \in TokenHolders

\* A video descriptor and an audio descriptor are queued together.
C23_Witness ==
  \E k, m \in 1..Len(queue) :
    /\ queue[k].mimeType = <<"video", "mp4">> /\ ~queue[k].isAudio
    /\ queue[m].mimeType = <<"audio", "mpeg">> /\ queue[m].isAudio

\* ----------------------------------------------------------- auth service
\* Request bodies of POST /register: usernames, and e-mail addresses as pairs
\* <<local part, domain>>.
Usernames == {Alice, Bob, Carol, <<"a", "l">>, <<"a", "-", "b">>,
              <<"b", "o", "b", " ", "s", "m", "i", "t", "h">>, <<"b", "_", "9">>}
Emails == {<<"alice", "x">>, <<"bob", "x">>, <<"carol", "x">>, <<"Bob", "X">>, <<"nomail", "">>}

\* body('username').isLength({ min: 3 }).matches(/^[a-zA-Z0-9_]+$/)
WordChars ==
  {"a", "b", "c", "d", "e", "f", "g", "h", "i", "j", "k", "l", "m", "n", "o", "p",
   "q", "r", "s", "t", "u", "v", "w", "x", "y", "z",
   "A", "B", "C", "D", "E", "F", "G", "H", "I", "J", "K", "L", "M", "N", "O", "P",
   "Q", "R", "S", "T", "U", "V", "W", "X", "Y", "Z",
   "0", "1", "2", "3", "4", "5", "6", "7", "8", "9", "_"}
ValidUsername(u) ==
  /\ Len(u) >= 3
  /\ \A i \in 1..Len(u) : u[i] \in WordChars

\* body('email').isEmail()
IsEmail(e) == e[1] # "" /\ e[2] # ""

\* String.prototype.toLowerCase on the strings in use.
Lower(str) == CASE str = "Bob" -> "bob" [] str = "X" -> "x" [] OTHER -> str

\* normalizeEmail() with its default all_lowercase
NormalizeEmail(e) == <<Lower(e[1]), Lower(e[2])>>

\* The UNIQUE constraints of the table users (initDatabase, L46-47).
UsersUnique(username, email) ==
  \A u \in users : u.username # username /\ u.email # email

\* POST /register, L110-120: the validators run; a valid request issues the
\* SELECT of L125.
StartRegister(r) ==
  /\ reqs[r].pc \in {"idle", "regDone", "delDone"}
  /\ userSeq <= MaxUserSeq
  /\ \E username \in Usernames, email \in Emails, passwordOk \in BOOLEAN :
       reqs' = [reqs EXCEPT ![r] =
                  IF ValidUsername(username) /\ IsEmail(email) /\ passwordOk
                    THEN [pc |-> "regSelect", username |-> username,
                          email |-> NormalizeEmail(email), code |-> 0, token |-> NoUser]
                    ELSE [pc |-> "regDone", username |-> username,
                          email |-> NormalizeEmail(email), code |-> 400, token |-> NoUser]]
  /\ UNCHANGED <<queue, store, marker, pc, job, nextId, hist, runs, ups, pushed, clock, lj, db, probe>>

\* L125-132: SELECT id FROM users WHERE username = $1 OR email = $2
RegSelect(r) ==
  /\ reqs[r].pc = "regSelect"
  /\ reqs' = [reqs EXCEPT ![r] =
                IF \E u \in users : u.username = reqs[r].username \/ u.email = reqs[r].email
                  THEN [@ EXCEPT !.pc = "regDone", !.code = 400]
                  ELSE [@ EXCEPT !.pc = "regHash"]]
  /\ UNCHANGED <<queue, store, marker, pc, job, nextId, hist, runs, ups, pushed, clock, lj, db, probe>>

\* L135-136: await bcrypt.hash(password, saltRounds)
RegHash(r) ==
  /\ reqs[r].pc = "regHash"
  /\ reqs' = [reqs EXCEPT ![r] = [@ EXCEPT !.pc = "regInsert"]]
  /\ UNCHANGED <<queue, store, marker, pc, job, nextId, hist, runs, ups, pushed, clock, lj, db, probe>>

\* The INSERT on a table without the UNIQUE constraints.
Mut_RegInsert(r) ==
  /\ reqs[r].pc = "regInsert"
  /\ userSeq' = userSeq + 1
  /\ users' = users \cup {[id |-> userSeq, username |-> reqs[r].username,
                           email |-> reqs[r].email]}
  /\ reqs' = [reqs EXCEPT ![r] = [@ EXCEPT !.pc = "regDone", !.code = 201, !.token = userSeq]]
  /\ UNCHANGED <<queue, store, marker, pc, job, nextId, hist, runs, ups, pushed, clock, lj, videos, videoSeq, probe>>

\* L139-168: INSERT INTO users ... RETURNING id; the sequence value is
\* taken before the constraints are checked.  A violation throws: the catch
\* of L170 answers 500.  Otherwise jwt.sign and 201.
RegInsert(r) ==
  /\ reqs[r].pc = "regInsert"
  /\ userSeq' = userSeq + 1
  /\ IF UsersUnique(reqs[r].username, reqs[r].email)
       THEN /\ users' = users \cup {[id |-> userSeq, username |-> reqs[r].username,
                                     email |-> reqs[r].email]}
            /\ reqs' = [reqs EXCEPT ![r] =
                          [@ EXCEPT !.pc = "regDone", !.code = 201, !.token = userSeq]]
       ELSE /\ users' = users
            /\ reqs' = [reqs EXCEPT ![r] = [@ EXCEPT !.pc = "regDone", !.code = 500]]
  /\ UNCHANGED <<queue, store, marker, pc, job, nextId, hist, runs, ups, pushed, clock, lj, videos, videoSeq, probe>>

\* DELETE /videos/:id, L86-107 and L298-305: authenticateToken answers 401
\* without a token and 403 for an invalid one; else the SELECT of L303 is issued.
StartDelete(r) ==
  /\ reqs[r].pc \in {"idle", "regDone", "delDone"}
  /\ \E requester \in TokenHolders \cup {NoUser}, videoId \in 1..MaxJobs :
       IF requester = NoUser
         THEN \E code \in {401, 403} :
                reqs' = [reqs EXCEPT ![r] = [pc |-> "delDone", userId |-> requester,
                                             videoId |-> videoId, code |-> code]]
         ELSE reqs' = [reqs EXCEPT ![r] = [pc |-> "delCheck", userId |-> requester,
                                           videoId |-> videoId, code |-> 0]]
  /\ UNCHANGED <<queue, store, marker, pc, job, nextId, hist, runs, ups, pushed, clock, lj, db, probe>>

\* The ownership check selecting by id alone.
Mut_DelCheck(r) ==
  /\ reqs[r].pc = "delCheck"
  /\ reqs' = [reqs EXCEPT ![r] =
                IF \E v \in videos : v.id = reqs[r].videoId
                  THEN [@ EXCEPT !.pc = "delDelete"]
                  ELSE [@ EXCEPT !.pc = "delDone", !.code = 404]]
  /\ UNCHANGED <<queue, store, marker, pc, job, nextId, hist, runs, ups, pushed, clock, lj, db, probe>>

\* L303-313: SELECT ... FROM videos WHERE id = $1 AND user_id = $2; 404
\* when no row is returned.
DelCheck(r) ==
  /\ reqs[r].pc = "delCheck"
  /\ reqs' = [reqs EXCEPT ![r] =
                IF \E v \in videos : v.id = reqs[r].videoId /\ v.user_id = reqs[r].userId
                  THEN [@ EXCEPT !.pc = "delDelete"]
                  ELSE [@ EXCEPT !.pc = "delDone", !.code = 404]]
  /\ UNCHANGED <<queue, store, marker, pc, job, nextId, hist, runs, ups, pushed, clock, lj, db, probe>>

\* L316-323: DELETE FROM videos WHERE id = $1, then the success response.
DelDelete(r) ==
  /\ reqs[r].pc = "delDelete"
  /\ videos' = {v \in videos : v.id # reqs[r].videoId}
  /\ reqs' = [reqs EXCEPT ![r] = [@ EXCEPT !.pc = "delDone", !.code = 200]]
  /\ UNCHANGED <<queue, store, marker, pc, job, nextId, hist, runs, ups, pushed, clock, lj, users, userSeq,
                 videoSeq, probe>>

RegisterStep(r) ==
  \/ StartRegister(r) \/ RegSelect(r) \/ RegHash(r) \/ RegInsert(r)

NextRegister == \E r \in ReqIds : RegisterStep(r)

\* Runs of concurrent POST /register requests against the table users.
SpecRegister == Init /\ [][NextRegister]_vars

DeleteStep(r) ==
  \/ StartDelete(r) \/ DelCheck(r) \/ DelDelete(r)

NextDelete ==
  \/ \E u \in UpIds : UploadStep(u)
  \/ \E r \in ReqIds : DeleteStep(r)

\* The database after a second user has registered (a state SpecRegister
\* reaches), with no request in flight.
InitTwoUsers ==
  /\ queue = << >>
  /\ store = [i \in Ids |-> NoRec]
  /\ marker = {}
  /\ pc = [w \in Workers |-> "brPop"]
  /\ job = [w \in Workers |-> NoJob]
  /\ nextId = 1
  /\ hist = [i \in Ids |-> << >>]
  /\ runs = [i \in Ids |-> 0]
  /\ users = {[id |-> 1, username |-> Alice, email |-> <<"alice", "x">>],
              [id |-> 2, username |-> Bob, email |-> <<"bob", "x">>]}
  /\ videos = {}
  /\ userSeq = 3
  /\ videoSeq = 1
  /\ reqs = [r \in ReqIds |-> Idle]
  /\ probe = NoProbe
  /\ ups = [u \in UpIds |-> Idle]
  /\ pushed = << >>
  /\ clock = 0
  /\ lj = Idle

\* Runs of uploads and concurrent DELETE /videos/:id requests of two users.
SpecDelete == InitTwoUsers /\ [][NextDelete]_vars

\* ------------------------------------------------------------------- C24
\* The request in slot r targets an existing row of another user.
ForeignTarget(r) ==
  \E v \in videos : v.id = reqs[r].videoId /\ v.user_id # reqs[r].userId

\* C24: a videos row disappears only in the DELETE step of a request
\* authenticated as the row's owner; a request authenticated as another
\* user is answered 404 and leaves the table unchanged, and never reaches
\* the DELETE statement.
C24_DeleteOnlyOwn ==
  [][/\ \A v \in videos : v \notin videos' =>
          \E r \in ReqIds :
            /\ reqs[r].pc = "delDelete" /\ reqs'[r].pc = "delDone"
            /\ reqs[r].videoId = v.id /\ reqs[r].userId = v.user_id
     /\ \A r \in ReqIds :
          (reqs[r].pc = "delCheck" /\ ForeignTarget(r) /\ reqs'[r] # reqs[r]) =>
            /\ reqs'[r].pc = "delDone" /\ reqs'[r].code = 404
            /\ videos' = videos]_vars

\* A request of one user for a row of the other user has been answered
\* 404 and the row is still there, while the owner has deleted another row.
C24_Witness ==
  \E r, q \in ReqIds :
    /\ reqs[r].pc = "delDone" /\ reqs[r].code = 404 /\ ForeignTarget(r)
    /\ reqs[q].pc = "delDone" /\ reqs[q].code = 200
    /\ \A v \in videos : v.id # reqs[q].videoId

\* ------------------------------------------------------------------- C28
\* C28: the table users never holds two rows with the same username or the
\* same e-mail address; a request whose INSERT meets a row inserted since
\* its existence check is answered 500 without a token and adds no row, and
\* a token is issued only together with the request's own new row.
C28_UniqueUsers ==
  /\ [](\A u, v \in users : (u.username = v.username \/ u.email = v.email) => u = v)
  /\ [][\A r \in ReqIds :
          (reqs[r].pc = "regInsert" /\ reqs'[r] # reqs[r]) =>
            IF \E u \in users : u.username = reqs[r].username \/ u.email = reqs[r].email
              THEN /\ reqs'[r].code = 500 /\ reqs'[r].token = NoUser
                   /\ users' = users
              ELSE /\ reqs'[r].code = 201 /\ reqs'[r].token # NoUser
                   /\ users' = users \cup {[id |-> reqs'[r].token,
                                            username |-> reqs[r].username,
                                            email |-> reqs[r].email]}]_vars

\* Two requests for the same username passed the existence check together:
\* one was answered 201 with a token, the other 500 without.
C28_Witness ==
  \E r, q \in ReqIds :
    /\ reqs[r].pc = "regDone" /\ reqs[r].code = 201 /\ reqs[r].token # NoUser
    /\ reqs[q].pc = "regDone" /\ reqs[q].code = 500 /\ reqs[q].token = NoUser
    /\ reqs[r].username = reqs[q].username
    /\ reqs[r].email # reqs[q].email

\* ------------------------------------------------------------------- C25
\* C25: a job failure is local to the job.  When processVideo is left
\* after a transform failure with the failed record stored, the worker goes
\* to the 100 ms delay of a normal iteration and not to the backoff; it
\* never stops but polls the queue again, and the next job it runs is built
\* from the dequeued descriptor alone.
C25_FailureIsLocal ==
  /\ [][\A w \in Workers :
          ( /\ job[w] # NoJob /\ job'[w] = NoJob
            /\ job[w].error \in TransformErrors
            /\ store'[job[w].id].status = "failed"
            /\ store'[job[w].id].error \in TransformErrors )
            => pc'[w] = "delay"]_vars
  /\ \A w \in Workers : (pc[w] = "delay") ~> (pc[w] = "brPop")
  /\ [][\A w \in Workers :
          (job[w] = NoJob /\ job'[w] # NoJob) =>
            /\ pc[w] = "brPop" /\ queue # << >>
            /\ job'[w] = BeginProcessing(queue[Len(queue)])
            /\ job'[w].error = "unset"]_vars

\* ------------------------------------------------------------------- C26
\* The task a worker is running at an await of processVideo.
TaskOf(p) ==
  CASE p = "extractMetadata" -> "metadata"
    [] p = "generateThumbnail" -> "thumbnail"
    [] p = "compressVideo" -> "compress"
    [] p = "convertAudio" -> "convert"
    [] OTHER -> "none"

\* Number of tasks of the job that have completed: each leaves its result
\* on the job object.
TasksDone(j) ==
  Cardinality({t \in {"metadata", "thumbnail", "compress", "convert"} :
                 \/ t = "metadata" /\ j.metadata
                 \/ t = "thumbnail" /\ j.thumbnailPath # NoPath
                 \/ t = "compress" /\ j.compressedPath # NoPath
                 \/ t = "convert" /\ j.convertedPath # NoPath})

\* The fixed order of the media kind.
FixedOrder(isAudio) ==
  IF isAudio THEN <<"metadata", "convert">> ELSE <<"metadata", "thumbnail", "compress">>

\* The n-th task of a job runs n-th in the fixed order of its media kind,
\* and starts only after the checkpoint of the previous one is stored.
TasksInFixedOrder ==
  \A w \in Workers : (job[w] # NoJob /\ TaskOf(pc[w]) # "none") =>
    LET n == TasksDone(job[w]) + 1 IN
      /\ n <= Len(FixedOrder(job[w].isAudio))
      /\ TaskOf(pc[w]) = FixedOrder(job[w].isAudio)[n]
      /\ store[job[w].id] = job[w]

\* C26: within a job the tasks run strictly in the fixed order of the media
\* kind, each after the previous checkpoint is written, and this executed
\* order is the tasks list of the job descriptor.
C26_TaskOrder ==
  /\ TasksInFixedOrder
  /\ \A w \in Workers : (job[w] # NoJob /\ TaskOf(pc[w]) # "none") =>
       TaskOf(pc[w]) = job[w].tasks[TasksDone(job[w]) + 1]

\* ------------------------------------------------------------------- C27
\* The videos row inserted by the upload that enqueued job i (job.dbId).
RowOf(i) == {v \in videos : v.id = store[i].dbId}

\* C27: a step of a worker changes nothing but the queue, the job records
\* and the markers: the tables users and videos are left as they are, so
\* the row of a job whose record is completed or failed still has status
\* queued.
C27_WorkerLeavesRows ==
  /\ [][(\E w \in Workers : pc'[w] # pc[w])
          => (videos' = videos /\ users' = users /\ userSeq' = userSeq
              /\ videoSeq' = videoSeq)]_vars
  /\ [](\A i \in Ids : store[i].status \in Terminal =>
          /\ RowOf(i) # {}
          /\ \A v \in RowOf(i) : v.status = "queued")

\* A completed record and a failed record are stored, and the rows of both
\* jobs read queued.
C27_Witness ==
  \E i, k \in Ids :
    /\ store[i].status = "completed" /\ store[k].status = "failed"
    /\ \E v \in RowOf(i) : v.status = "queued"
    /\ \E v \in RowOf(k) : v.status = "queued"

====
